---- MODULE Spec2Model ----
(***************************************************************************)
(* RCIU (Random Capital Instrument Updates): a scheduled Lambda handler    *)
(* that fetches an instrument snapshot, validates and filters it, diffs it *)
(* by ISIN against the snapshot persisted in data.json on S3, appends the  *)
(* added/removed records to the persisted update log, and renders the log  *)
(* to instrument-updates.html.                                             *)
(*                                                                         *)
(* Two variants of the handler exist in the repository: the async/await    *)
(* one (src/instrument-updates-generator.js) and the promise-chain one     *)
(* (src/unnamed/part_000).  Both are modelled; the variant of a run is     *)
(* chosen when the run starts.                                             *)
(*                                                                         *)
(* JavaScript values are modelled as tagged records [t, v]: a string is    *)
(* the sequence of its characters, an array the sequence of its elements.  *)
(* An optional value is a sequence of length 0 or 1.                       *)
(***************************************************************************)
EXTENDS Integers, Sequences, FiniteSets, Bags, TLC

\* ------------------------------------------------------------------ bounds
MaxRows == 2
MaxRuns == 3
MaxClock == 1

\* ------------------------------------------------- JavaScript/JSON values
Str(chars) == [t |-> "string", v |-> chars]
Num == [t |-> "number", v |-> <<>>]
Arr(elems) == [t |-> "array", v |-> elems]
Undefined == [t |-> "undefined", v |-> <<>>]

isArray(x) == x.t = "array"
isString(x) == x.t = "string"

Digits == {"0", "1", "2", "3", "4", "5", "6", "7", "8", "9"}
UpperSeq ==
  <<"A", "B", "C", "D", "E", "F", "G", "H", "I", "J", "K", "L", "M",
    "N", "O", "P", "Q", "R", "S", "T", "U", "V", "W", "X", "Y", "Z">>
DigitSeq == <<"0", "1", "2", "3", "4", "5", "6", "7", "8", "9">>
Uppers == {UpperSeq[i] : i \in DOMAIN UpperSeq}

\* UTF-16 code unit of a character (the characters ISIN codes are made of).
CharCode(c) ==
  IF c \in Digits
  THEN 47 + (CHOOSE i \in DOMAIN DigitSeq : DigitSeq[i] = c)
  ELSE 64 + (CHOOSE i \in DOMAIN UpperSeq : UpperSeq[i] = c)

\* JavaScript's a < b on strings: lexicographic by code unit.
RECURSIVE StrLess(_, _)
StrLess(a, b) ==
  IF b = <<>> THEN FALSE
  ELSE IF a = <<>> THEN TRUE
  ELSE IF Head(a) = Head(b) THEN StrLess(Tail(a), Tail(b))
  ELSE CharCode(Head(a)) < CharCode(Head(b))

\* ------------------------------------------------------ program constants
TICKER_MIN == 1
TICKER_MAX == 12
SHORT_NAME_MIN == 2
SHORT_NAME_MAX == 24
LONG_NAME_MIN == 2
LONG_NAME_MAX == 64
TYPE_MAX == 24
ROW_MIN == 5
ROW_MAX == 7
ISIN_LEN == 12
HTTP_OK == 200

Reszveny == <<"R", "é", "s", "z", "v", "é", "n", "y">>
ETF == <<"E", "T", "F">>
PinkSheet == <<"P", "i", "n", "k", " ", "S", "h", "e", "e", "t">>
INSTRUMENT_TYPES_TO_SAVE == {Reszveny, ETF, PinkSheet}

\* /^([A-Z]{2})[A-Z0-9]{9}\d{1}$/
ISIN_CODE_REGEX(s) ==
  /\ Len(s) = ISIN_LEN
  /\ \A i \in 1..2 : s[i] \in Uppers
  /\ \A i \in 3..(ISIN_LEN - 1) : s[i] \in Uppers \cup Digits
  /\ s[ISIN_LEN] \in Digits

\* ------------------------------------------------------- pure functions
\* instrumentRow is the sequence of the row's fields; JavaScript's index i
\* is index i + 1 here.  A field past the end of the row reads undefined.
Field(fields, i) == IF i <= Len(fields) THEN fields[i] ELSE Undefined

createInstrument(instrumentRow) ==
  [ticker |-> Field(instrumentRow.v, 1),
   shortName |-> Field(instrumentRow.v, 2),
   longName |-> Field(instrumentRow.v, 3),
   isinCode |-> Field(instrumentRow.v, 4),
   type |-> Field(instrumentRow.v, 5)]

\* (a.isinCode > b.isinCode) - (a.isinCode < b.isinCode)
instrumentSortCompare(a, b) ==
  (IF StrLess(b.isinCode.v, a.isinCode.v) THEN 1 ELSE 0)
    - (IF StrLess(a.isinCode.v, b.isinCode.v) THEN 1 ELSE 0)

\* Array.prototype.sort with instrumentSortCompare.  For arrays of up to ten
\* elements every V8 release sorts by insertion, which is stable.
RECURSIVE InsertInstrument(_, _)
InsertInstrument(sorted, x) ==
  IF sorted = <<>> THEN <<x>>
  ELSE IF instrumentSortCompare(sorted[Len(sorted)], x) > 0
       THEN Append(InsertInstrument(SubSeq(sorted, 1, Len(sorted) - 1), x),
                   sorted[Len(sorted)])
       ELSE Append(sorted, x)

RECURSIVE SortInstruments(_)
SortInstruments(s) ==
  IF s = <<>> THEN <<>>
  ELSE InsertInstrument(SortInstruments(SubSeq(s, 1, Len(s) - 1)), s[Len(s)])


\* doParseAndValidation's row check; the two variants differ in the row
\* length they accept.
RowLengthOk(v, n) ==
  IF v = "async" THEN ~(n < ROW_MIN \/ n > ROW_MAX) ELSE n = ROW_MIN

\* Mutant of RowThrows: the ISIN code check is missing.
RowThrows_noIsinCheck(v, instrumentRow) ==
  \/ ~isArray(instrumentRow)
  \/ ~RowLengthOk(v, Len(instrumentRow.v))
  \/ LET instrument == createInstrument(instrumentRow) IN
       \/ ~isString(instrument.ticker)
       \/ Len(instrument.ticker.v) < TICKER_MIN
       \/ Len(instrument.ticker.v) > TICKER_MAX
       \/ ~isString(instrument.shortName)
       \/ Len(instrument.shortName.v) < SHORT_NAME_MIN
       \/ Len(instrument.shortName.v) > SHORT_NAME_MAX
       \/ ~isString(instrument.longName)
       \/ Len(instrument.longName.v) < LONG_NAME_MIN
       \/ Len(instrument.longName.v) > LONG_NAME_MAX
       \/ ~isString(instrument.type)
       \/ Len(instrument.type.v) > TYPE_MAX

RowThrows(v, instrumentRow) ==
  \/ ~isArray(instrumentRow)
  \/ ~RowLengthOk(v, Len(instrumentRow.v))
  \/ LET instrument == createInstrument(instrumentRow) IN
       \/ ~isString(instrument.ticker)
       \/ Len(instrument.ticker.v) < TICKER_MIN
       \/ Len(instrument.ticker.v) > TICKER_MAX
       \/ ~isString(instrument.shortName)
       \/ Len(instrument.shortName.v) < SHORT_NAME_MIN
       \/ Len(instrument.shortName.v) > SHORT_NAME_MAX
       \/ ~isString(instrument.longName)
       \/ Len(instrument.longName.v) < LONG_NAME_MIN
       \/ Len(instrument.longName.v) > LONG_NAME_MAX
       \/ ~isString(instrument.isinCode)
       \/ ~ISIN_CODE_REGEX(instrument.isinCode.v)
       \/ ~isString(instrument.type)
       \/ Len(instrument.type.v) > TYPE_MAX

\* The text of a document is modelled by the value it parses to; text that
\* is not JSON is Garbage, on which JSON.parse throws.
JSONStringify(value) == [t |-> "json", v |-> <<value>>]
Garbage == [t |-> "garbage", v |-> <<>>]
JSONParseThrows(text) == text.t # "json"
JSONParse(text) == text.v[1]

\* TRUE iff doParseAndValidation(body) throws.
doParseAndValidationThrows(v, body) ==
  \/ JSONParseThrows(body)
  \/ LET parsedBody == JSONParse(body) IN
       \/ ~isArray(parsedBody.data)
       \/ Len(parsedBody.data.v) = 0
       \/ \E i \in DOMAIN parsedBody.data.v : RowThrows(v, parsedBody.data.v[i])

\* The value doParseAndValidation(body) returns when it does not throw.
doParseAndValidation(body) == JSONParse(body).data.v

selectInstruments(instruments) ==
  SelectSeq(instruments,
            LAMBDA instrumentRow :
              /\ isString(createInstrument(instrumentRow).type)
              /\ createInstrument(instrumentRow).type.v \in INSTRUMENT_TYPES_TO_SAVE)

\* TRUE iff getInstrumentsData rejects: request-promise rejects a transport
\* error and every non-2xx status, the callback variant every status but 200.
getInstrumentsDataRejects(v, resp) ==
  \/ resp.err
  \/ IF v = "async"
     THEN resp.status \div 100 # HTTP_OK \div 100
     ELSE resp.status # HTTP_OK

CreateAll(instrumentRows) ==
  [i \in DOMAIN instrumentRows |-> createInstrument(instrumentRows[i])]

\* The elements of s at the indices in I, in order.
RECURSIVE Pick(_, _, _)
Pick(s, I, i) ==
  IF i > Len(s) THEN <<>>
  ELSE (IF i \in I THEN <<s[i]>> ELSE <<>>) \o Pick(s, I, i + 1)

Isins(s) == [i \in DOMAIN s |-> s[i].isinCode.v]

\* arrayDiff.diff(old, new, (a, b) => a.isinCode === b.isinCode): the
\* elements of old and of new outside a longest common subsequence.  Which
\* longest common subsequence is taken is the library's choice, so every
\* one of them is a possible result.
CommonPicks(old, new) ==
  {p \in (SUBSET DOMAIN old) \X (SUBSET DOMAIN new) :
     Isins(Pick(old, p[1], 1)) = Isins(Pick(new, p[2], 1))}

\* Mutant of Diffs: an empty new array is taken as "nothing to compare".
Diffs_emptyNewSkipped(old, new) ==
  IF new = <<>> THEN {[removed |-> <<>>, added |-> <<>>]}
  ELSE LET common == CommonPicks(old, new)
           best == {p \in common :
                      \A q \in common : Cardinality(q[1]) <= Cardinality(p[1])}
       IN {[removed |-> Pick(old, DOMAIN old \ p[1], 1),
            added |-> Pick(new, DOMAIN new \ p[2], 1)] : p \in best}

\* arrayDiff.diff(old, new, compare): what is left of each array outside a
\* longest common subsequence, in the array's order.
Diffs(old, new) ==
  LET common == CommonPicks(old, new)
      best == {p \in common :
                 \A q \in common : Cardinality(q[1]) <= Cardinality(p[1])}
  IN {[removed |-> Pick(old, DOMAIN old \ p[1], 1),
       added |-> Pick(new, DOMAIN new \ p[2], 1)] : p \in best}

\* new Date().toISOString() and new Date(dateTime): the millisecond field
\* of the ISO text, three decimal digits.
ToISOString(ms) ==
  Str(<<DigitSeq[((ms \div 100) % 10) + 1], DigitSeq[((ms \div 10) % 10) + 1],
        DigitSeq[(ms % 10) + 1]>>)
DigitValue(c) == (CHOOSE i \in DOMAIN DigitSeq : DigitSeq[i] = c) - 1
DateParse(text) ==
  100 * DigitValue(text.v[1]) + 10 * DigitValue(text.v[2]) + DigitValue(text.v[3])

\* The records one forEach of saveDataFileToS3 pushes: one per instrument,
\* stamps[offset + i] being the clock reading of the i-th push.
UpdateRecords(type, instruments, stamps, offset) ==
  [i \in DOMAIN instruments |->
     [type |-> type,
      dateTime |-> ToISOString(stamps[offset + i]),
      instrument |-> instruments[i]]]

\* Mutant of InsertUpdate: the comparator subtracts the other way round.
RECURSIVE InsertUpdate_ascending(_, _)
InsertUpdate_ascending(sorted, x) ==
  IF sorted = <<>> THEN <<x>>
  ELSE IF DateParse(sorted[Len(sorted)].dateTime) - DateParse(x.dateTime) > 0
       THEN Append(InsertUpdate_ascending(SubSeq(sorted, 1, Len(sorted) - 1), x),
                   sorted[Len(sorted)])
       ELSE Append(sorted, x)

\* instrumentUpdates.sort((a, b) => new Date(b.dateTime) - new Date(a.dateTime))
RECURSIVE InsertUpdate(_, _)
InsertUpdate(sorted, x) ==
  IF sorted = <<>> THEN <<x>>
  ELSE IF DateParse(x.dateTime) - DateParse(sorted[Len(sorted)].dateTime) > 0
       THEN Append(InsertUpdate(SubSeq(sorted, 1, Len(sorted) - 1), x),
                   sorted[Len(sorted)])
       ELSE Append(sorted, x)

RECURSIVE SortUpdates(_)
SortUpdates(s) ==
  IF s = <<>> THEN <<>>
  ELSE InsertUpdate(SortUpdates(SubSeq(s, 1, Len(s) - 1)), s[Len(s)])

\* Mutant of InitData: the instruments are not sorted.
InitData_unsorted(instrumentRows) ==
  [instruments |-> CreateAll(instrumentRows), updates |-> <<>>]

\* The document initDataFileToS3 builds.
InitData(instrumentRows) ==
  [instruments |-> SortInstruments(CreateAll(instrumentRows)), updates |-> <<>>]

\* Mutant of SaveData: the log is replaced by this run's records.
SaveData_logReplaced(instrumentRows, dataFileBody, diff, stamps) ==
  [instruments |-> SortInstruments(CreateAll(instrumentRows)),
   updates |-> UpdateRecords("removed", diff.removed, stamps, 0)
                 \o UpdateRecords("added", diff.added, stamps, Len(diff.removed))]

\* Mutant of SaveData: dataFile.instruments is not replaced.
SaveData_instrumentsKept(instrumentRows, dataFileBody, diff, stamps) ==
  [instruments |-> SortInstruments(JSONParse(dataFileBody).instruments),
   updates |-> JSONParse(dataFileBody).updates
                 \o UpdateRecords("removed", diff.removed, stamps, 0)
                 \o UpdateRecords("added", diff.added, stamps, Len(diff.removed))]

\* Mutant of SaveData: the log is sorted newest-first before it is written.
SaveData_sortedBeforeWrite(instrumentRows, dataFileBody, diff, stamps) ==
  [instruments |-> SortInstruments(CreateAll(instrumentRows)),
   updates |-> SortUpdates(
                 JSONParse(dataFileBody).updates
                   \o UpdateRecords("removed", diff.removed, stamps, 0)
                   \o UpdateRecords("added", diff.added, stamps, Len(diff.removed)))]

\* Mutant of SaveData: the 'added' records are pushed before the 'removed'.
SaveData_addedFirst(instrumentRows, dataFileBody, diff, stamps) ==
  [instruments |-> SortInstruments(CreateAll(instrumentRows)),
   updates |-> JSONParse(dataFileBody).updates
                 \o UpdateRecords("added", diff.added, stamps, 0)
                 \o UpdateRecords("removed", diff.removed, stamps, Len(diff.added))]

\* The dataFile object of saveDataFileToS3 at its putObject call.
SaveData(instrumentRows, dataFileBody, diff, stamps) ==
  LET instruments == SortInstruments(CreateAll(instrumentRows))
      dataFile == JSONParse(dataFileBody)
  IN [instruments |-> instruments,
      updates |-> dataFile.updates
                    \o UpdateRecords("removed", diff.removed, stamps, 0)
                    \o UpdateRecords("added", diff.added, stamps, Len(diff.removed))]

\* Mutant of SaveDiffs: the arrays are handed to the diff the other way round.
SaveDiffs_swapped(instrumentRows, dataFileBody) ==
  Diffs(SortInstruments(CreateAll(instrumentRows)),
        SortInstruments(JSONParse(dataFileBody).instruments))

\* Mutant of SaveDiffs: the new instruments are diffed unsorted.
SaveDiffs_newUnsorted(instrumentRows, dataFileBody) ==
  Diffs(SortInstruments(JSONParse(dataFileBody).instruments),
        CreateAll(instrumentRows))

\* The diff saveDataFileToS3 computes.
SaveDiffs(instrumentRows, dataFileBody) ==
  Diffs(SortInstruments(JSONParse(dataFileBody).instruments),
        SortInstruments(CreateAll(instrumentRows)))

\* renderHtml's result: the page lists the updates in the order given.
renderHtml(instrumentUpdates) == [t |-> "html", v |-> instrumentUpdates]

\* ------------------------------------------------------------- the inputs
IsinA == <<"H", "U", "0", "0", "0", "0", "0", "6", "1", "7", "2", "6">>
IsinB == <<"U", "S", "0", "3", "7", "8", "3", "3", "1", "0", "0", "5">>
BadIsin == <<"1", "2", "A", "B", "3", "4", "5", "6", "7", "8", "9", "0">>
Bond == <<"K", "ö", "t", "v", "é", "n", "y">>

Row(ticker, name, isin, type) ==
  Arr(<<Str(ticker), Str(name), Str(name), Str(isin), Str(type)>>)

RowA1 == Row(<<"O", "T", "P">>, <<"O", "T", "P">>, IsinA, Reszveny)
RowA2 == Row(<<"O", "T", "P", "2">>, <<"O", "T", "P", " ", "B">>, IsinA, ETF)
RowB == Row(<<"A", "A", "P", "L">>, <<"A", "p", "p", "l", "e">>, IsinB, PinkSheet)
RowBond == Row(<<"M", "A", "K">>, <<"M", "A", "K">>, IsinB, Bond)
RowBond6 == Arr(RowBond.v \o <<Num>>)
RowBond8 == Arr(RowBond.v \o <<Num, Num, Num>>)
RowShort == Arr(<<Str(<<"A", "B">>), Str(<<"X">>)>>)
RowBadIsin == Row(<<"O", "T", "P">>, <<"O", "T", "P">>, BadIsin, ETF)
RowBadTicker == Arr(<<Num>> \o Tail(RowA1.v))
RowNotList == Str(<<"x">>)

RowPool ==
  {RowA1, RowA2, RowB, RowBond, RowBond6, RowBond8, RowShort, RowBadIsin,
   RowBadTicker, RowNotList}

RowSeqs == UNION {[1..k -> RowPool] : k \in 0..MaxRows}

Bodies ==
  {Garbage, JSONStringify([data |-> Undefined]),
   JSONStringify([data |-> Str(<<"x">>)])}
    \cup {JSONStringify([data |-> Arr(rows)]) : rows \in RowSeqs}

Responses ==
  {[err |-> TRUE, status |-> 0, body |-> Garbage],
   [err |-> FALSE, status |-> 500, body |-> Garbage]}
    \cup [err : {FALSE}, status : {HTTP_OK}, body : Bodies]
    \cup [err : {FALSE}, status : {206},
          body : {JSONStringify([data |-> Arr(<<RowA1>>)])}]

\* The clock readings of k successive pushes, the first not before lo.
Stamps(k, lo) ==
  {st \in [1..k -> lo..MaxClock] : \A i \in 1..k : \A j \in i..k : st[i] <= st[j]}

\* -------------------------------------------------------------- the state
Procs == {"p", "q"}
SeqProcs == {"p"}
Variants == {"async", "promise"}

VARIABLES
  store,              \* data.json on S3: <<>> or <<its text>>
  htmlStore,          \* instrument-updates.html on S3: <<>> or <<the page>>
  clock,              \* the wall clock, in milliseconds
  runs,               \* the number of runs started
  pc,                 \* where each run is
  variant,            \* which Handler the run executes
  response,           \* <<the upstream response>> from its arrival until
                      \* doesDataFileExist settles (it is not read after), else <<>>
  selected,           \* selectedInstruments
  path,               \* "none", "bootstrap" or "reconcile"
  dataFileBody,       \* <<>> or <<the Body readDataFileFromS3 resolved to>>
  diff,               \* <<>> or <<the diff saveDataFileToS3 computed>>
  putBody,            \* <<>> or <<params.Body of the putObject of data.json>>
  instrumentUpdates,  \* the list handed to renderHtml
  errAt,              \* the step at which the run failed, or "none"
  startStore,         \* history: store when the run started
  wrote,              \* history: writes of data.json by the run
  wroteHtml,          \* history: writes of the page by the run
  producer,           \* history: <<selected>> of the successful run that
                      \* wrote store, <<>> if none or store written since
  startProducer,      \* history: producer when the run started
  overlapped,         \* history: another run was in progress during the run
  lineage             \* history: the instruments of the document bootstrap
                      \* wrote (boot), and whether no document written so
                      \* far came from rows repeating an ISIN (dupFree)

vars ==
  <<store, htmlStore, clock, runs, pc, variant, response, selected, path,
    dataFileBody, diff, putBody, instrumentUpdates, errAt, startStore, wrote,
    wroteHtml, producer, startProducer, overlapped, lineage>>

shared == <<store, htmlStore, clock, producer>>
locals ==
  <<variant, response, selected, path, dataFileBody, diff, putBody,
    instrumentUpdates, startStore, startProducer>>

Init ==
  /\ store = <<>>
  /\ htmlStore = <<>>
  /\ clock = 0
  /\ runs = 0
  /\ pc = [r \in Procs |-> "idle"]
  /\ variant = [r \in Procs |-> "async"]
  /\ response = [r \in Procs |-> <<>>]
  /\ selected = [r \in Procs |-> <<>>]
  /\ path = [r \in Procs |-> "none"]
  /\ dataFileBody = [r \in Procs |-> <<>>]
  /\ diff = [r \in Procs |-> <<>>]
  /\ putBody = [r \in Procs |-> <<>>]
  /\ instrumentUpdates = [r \in Procs |-> <<>>]
  /\ errAt = [r \in Procs |-> "none"]
  /\ startStore = [r \in Procs |-> <<>>]
  /\ wrote = [r \in Procs |-> 0]
  /\ wroteHtml = [r \in Procs |-> 0]
  /\ producer = <<>>
  /\ startProducer = [r \in Procs |-> <<>>]
  /\ overlapped = [r \in Procs |-> FALSE]
  /\ lineage = [boot |-> <<>>, dupFree |-> TRUE]

\* The catch of Handler: the run ends in error.
Fail(r, step) ==
  /\ pc' = [pc EXCEPT ![r] = "error"]
  /\ errAt' = [errAt EXCEPT ![r] = step]

\* The run is in progress.
Active(r) == pc[r] \notin {"idle", "done", "error"}

\* No two of the rows carry the same ISIN code.
DuplicateFree(instrumentRows) ==
  \A i \in DOMAIN instrumentRows : \A j \in DOMAIN instrumentRows :
    createInstrument(instrumentRows[i]).isinCode
      = createInstrument(instrumentRows[j]).isinCode => i = j

\* Handler is invoked: getInstrumentsData is called.
Start(r, v) ==
  /\ pc[r] \in {"idle", "done", "error"}
  /\ runs < MaxRuns
  /\ runs' = runs + 1
  /\ pc' = [pc EXCEPT ![r] = "fetch"]
  /\ variant' = [variant EXCEPT ![r] = v]
  /\ response' = [response EXCEPT ![r] = <<>>]
  /\ selected' = [selected EXCEPT ![r] = <<>>]
  /\ path' = [path EXCEPT ![r] = "none"]
  /\ dataFileBody' = [dataFileBody EXCEPT ![r] = <<>>]
  /\ diff' = [diff EXCEPT ![r] = <<>>]
  /\ putBody' = [putBody EXCEPT ![r] = <<>>]
  /\ instrumentUpdates' = [instrumentUpdates EXCEPT ![r] = <<>>]
  /\ errAt' = [errAt EXCEPT ![r] = "none"]
  /\ startStore' = [startStore EXCEPT ![r] = store]
  /\ wrote' = [wrote EXCEPT ![r] = 0]
  /\ wroteHtml' = [wroteHtml EXCEPT ![r] = 0]
  /\ startProducer' = [startProducer EXCEPT ![r] = producer]
  /\ overlapped' =
       [o \in Procs |->
          IF o = r THEN \E x \in Procs \ {r} : Active(x)
          ELSE overlapped[o] \/ Active(o)]
  /\ UNCHANGED <<shared, lineage>>

\* The upstream request settles; doParseAndValidation and selectInstruments
\* run, and doesDataFileExist is called.
FetchDone(r, resp) ==
  /\ pc[r] = "fetch"
  /\ response' = [response EXCEPT ![r] = <<resp>>]
  /\ IF getInstrumentsDataRejects(variant[r], resp)
     THEN Fail(r, "fetch") /\ UNCHANGED selected
     ELSE IF doParseAndValidationThrows(variant[r], resp.body)
     THEN Fail(r, "validate") /\ UNCHANGED selected
     ELSE /\ selected' =
               [selected EXCEPT ![r] = selectInstruments(doParseAndValidation(resp.body))]
          /\ pc' = [pc EXCEPT ![r] = "head"]
          /\ UNCHANGED errAt
  /\ UNCHANGED <<shared, runs, variant, path, dataFileBody, diff, putBody,
                 instrumentUpdates, startStore, wrote, wroteHtml, startProducer,
                 overlapped, lineage>>

\* Mutant of HeadDone: every failure of headObject is taken as "not found".
HeadDone_anyErrorIsNotFound(r, ok) ==
  /\ pc[r] = "head"
  /\ IF ok /\ store # <<>>
     THEN /\ pc' = [pc EXCEPT ![r] = "read"]
          /\ path' = [path EXCEPT ![r] = "reconcile"]
          /\ UNCHANGED <<errAt, putBody>>
     ELSE /\ pc' = [pc EXCEPT ![r] = "initput"]
          /\ path' = [path EXCEPT ![r] = "bootstrap"]
          /\ putBody' = [putBody EXCEPT ![r] = <<JSONStringify(InitData(selected[r]))>>]
          /\ UNCHANGED errAt
  /\ response' = [response EXCEPT ![r] = <<>>]
  /\ UNCHANGED <<shared, runs, variant, selected, dataFileBody, diff,
                 instrumentUpdates, startStore, wrote, wroteHtml, startProducer,
                 overlapped, lineage>>

\* headObject settles.  On true readDataFileFromS3 is called; on NotFound
\* initDataFileToS3 builds the document and calls putObject.
HeadDone(r, ok) ==
  /\ pc[r] = "head"
  /\ IF ~ok
     THEN Fail(r, "head") /\ UNCHANGED <<path, putBody>>
     ELSE IF store # <<>>
     THEN /\ pc' = [pc EXCEPT ![r] = "read"]
          /\ path' = [path EXCEPT ![r] = "reconcile"]
          /\ UNCHANGED <<errAt, putBody>>
     ELSE /\ pc' = [pc EXCEPT ![r] = "initput"]
          /\ path' = [path EXCEPT ![r] = "bootstrap"]
          /\ putBody' = [putBody EXCEPT ![r] = <<JSONStringify(InitData(selected[r]))>>]
          /\ UNCHANGED errAt
  /\ response' = [response EXCEPT ![r] = <<>>]
  /\ UNCHANGED <<shared, runs, variant, selected, dataFileBody, diff,
                 instrumentUpdates, startStore, wrote, wroteHtml, startProducer,
                 overlapped, lineage>>

\* The putObject of initDataFileToS3 settles.  Its response has no Body, so
\* instrumentUpdates is [], which is sorted and handed to renderHtml.
InitPutDone(r, ok) ==
  /\ pc[r] = "initput"
  /\ IF ok
     THEN /\ store' = putBody[r]
          /\ producer' = <<>>
          /\ wrote' = [wrote EXCEPT ![r] = @ + 1]
          /\ instrumentUpdates' = [instrumentUpdates EXCEPT ![r] = SortUpdates(<<>>)]
          /\ lineage' = [boot |-> <<JSONParse(putBody[r][1]).instruments>>,
                         dupFree |-> DuplicateFree(selected[r])]
          /\ pc' = [pc EXCEPT ![r] = "render"]
          /\ UNCHANGED errAt
     ELSE /\ Fail(r, "initput")
          /\ UNCHANGED <<store, producer, wrote, instrumentUpdates, lineage>>
  /\ UNCHANGED <<htmlStore, clock, runs, variant, response, selected, path,
                 dataFileBody, diff, putBody, startStore, wroteHtml, startProducer,
                 overlapped>>

\* getObject settles.  saveDataFileToS3 runs up to its putObject call: it
\* diffs, appends the update records and serialises the document.
ReadDone(r, ok, d, st) ==
  /\ pc[r] = "read"
  /\ IF ok
     THEN /\ d \in SaveDiffs(selected[r], store[1])
          /\ st \in Stamps(Len(d.removed) + Len(d.added), clock)
          /\ dataFileBody' = [dataFileBody EXCEPT ![r] = store]
          /\ diff' = [diff EXCEPT ![r] = <<d>>]
          /\ putBody' =
               [putBody EXCEPT ![r] = <<JSONStringify(SaveData(selected[r], store[1], d, st))>>]
          /\ clock' = IF st = <<>> THEN clock ELSE st[Len(st)]
          /\ pc' = [pc EXCEPT ![r] = "saveput"]
          /\ UNCHANGED errAt
     ELSE /\ d = [removed |-> <<>>, added |-> <<>>]
          /\ st = <<>>
          /\ Fail(r, "read")
          /\ UNCHANGED <<dataFileBody, diff, putBody, clock>>
  /\ UNCHANGED <<store, htmlStore, producer, runs, variant, response, selected,
                 path, instrumentUpdates, startStore, wrote, wroteHtml, startProducer,
                 overlapped, lineage>>

\* Mutant of ResolvedUpdates: only the records appended in this run.
ResolvedUpdates_onlyNew(prior, written) ==
  SubSeq(JSONParse(written).updates, Len(JSONParse(prior).updates) + 1,
         Len(JSONParse(written).updates))

\* The value saveDataFileToS3 resolves to: dataFile.updates, of the document
\* it wrote (prior is the text it read).
ResolvedUpdates(prior, written) == JSONParse(written).updates

\* Mutant of SavePutDone: rendering starts although nothing was written.
SavePutDone_notWritten(r, ok) ==
  /\ pc[r] = "saveput"
  /\ IF ok
     THEN /\ instrumentUpdates' =
               [instrumentUpdates EXCEPT
                  ![r] = SortUpdates(JSONParse(putBody[r][1]).updates)]
          /\ pc' = [pc EXCEPT ![r] = "render"]
          /\ UNCHANGED errAt
     ELSE /\ Fail(r, "saveput")
          /\ UNCHANGED instrumentUpdates
  /\ UNCHANGED <<store, producer, wrote, htmlStore, clock, runs, variant, response,
                 selected, path, dataFileBody, diff, putBody, startStore, wroteHtml,
                 startProducer, overlapped, lineage>>

\* Mutant of SavePutDone: a failed putObject is not propagated.
SavePutDone_failureSwallowed(r, ok) ==
  /\ pc[r] = "saveput"
  /\ IF ok
     THEN /\ store' = putBody[r]
          /\ producer' = <<>>
          /\ wrote' = [wrote EXCEPT ![r] = @ + 1]
          /\ lineage' = [lineage EXCEPT !.dupFree = @ /\ DuplicateFree(selected[r])]
     ELSE UNCHANGED <<store, producer, wrote, lineage>>
  /\ instrumentUpdates' =
       [instrumentUpdates EXCEPT
          ![r] = SortUpdates(ResolvedUpdates(dataFileBody[r][1], putBody[r][1]))]
  /\ pc' = [pc EXCEPT ![r] = "render"]
  /\ UNCHANGED <<errAt, htmlStore, clock, runs, variant, response, selected, path,
                 dataFileBody, diff, putBody, startStore, wroteHtml, startProducer,
                 overlapped>>

\* The putObject of saveDataFileToS3 settles.  It resolves to dataFile.updates,
\* which Handler sorts and hands to renderHtml.
SavePutDone(r, ok) ==
  /\ pc[r] = "saveput"
  /\ IF ok
     THEN /\ store' = putBody[r]
          /\ producer' = <<>>
          /\ wrote' = [wrote EXCEPT ![r] = @ + 1]
          /\ instrumentUpdates' =
               [instrumentUpdates EXCEPT
                  ![r] = SortUpdates(ResolvedUpdates(dataFileBody[r][1], putBody[r][1]))]
          /\ lineage' = [lineage EXCEPT !.dupFree = @ /\ DuplicateFree(selected[r])]
          /\ pc' = [pc EXCEPT ![r] = "render"]
          /\ UNCHANGED errAt
     ELSE /\ Fail(r, "saveput")
          /\ UNCHANGED <<store, producer, wrote, instrumentUpdates, lineage>>
  /\ UNCHANGED <<htmlStore, clock, runs, variant, response, selected, path,
                 dataFileBody, diff, putBody, startStore, wroteHtml, startProducer,
                 overlapped>>

\* ejs.renderFile calls back; on success uploadInstrumentUpdatesToS3 is called.
RenderDone(r, ok) ==
  /\ pc[r] = "render"
  /\ IF ok
     THEN pc' = [pc EXCEPT ![r] = "upload"] /\ UNCHANGED errAt
     ELSE Fail(r, "render")
  /\ UNCHANGED <<shared, runs, locals, wrote, wroteHtml, overlapped, lineage>>

\* The putObject of the page settles; on success the run ends successfully.
UploadDone(r, ok) ==
  /\ pc[r] = "upload"
  /\ IF ok
     THEN /\ htmlStore' = <<renderHtml(instrumentUpdates[r])>>
          /\ wroteHtml' = [wroteHtml EXCEPT ![r] = @ + 1]
          /\ producer' = IF store = putBody[r] THEN <<selected[r]>> ELSE producer
          /\ pc' = [pc EXCEPT ![r] = "done"]
          /\ UNCHANGED errAt
     ELSE /\ Fail(r, "upload")
          /\ UNCHANGED <<htmlStore, wroteHtml, producer>>
  /\ UNCHANGED <<store, clock, runs, locals, wrote, overlapped, lineage>>

\* Time passes.
Tick ==
  /\ clock < MaxClock
  /\ clock' = clock + 1
  /\ UNCHANGED <<store, htmlStore, producer, runs, pc, errAt, locals, wrote, wroteHtml,
                 overlapped, lineage>>

\* Runs never overlap: one invocation at a time.
Next ==
  \/ \E r \in SeqProcs, v \in Variants : Start(r, v)
  \/ \E r \in SeqProcs, resp \in Responses : FetchDone(r, resp)
  \/ \E r \in SeqProcs, ok \in BOOLEAN : HeadDone(r, ok)
  \/ \E r \in SeqProcs, ok \in BOOLEAN : InitPutDone(r, ok)
  \/ \E r \in SeqProcs, ok \in BOOLEAN :
       /\ pc[r] = "read"
       /\ \E d \in (IF ok THEN SaveDiffs(selected[r], store[1])
                          ELSE {[removed |-> <<>>, added |-> <<>>]}) :
            \E st \in (IF ok THEN Stamps(Len(d.removed) + Len(d.added), clock)
                             ELSE {<<>>}) :
              ReadDone(r, ok, d, st)
  \/ \E r \in SeqProcs, ok \in BOOLEAN : SavePutDone(r, ok)
  \/ \E r \in SeqProcs, ok \in BOOLEAN : RenderDone(r, ok)
  \/ \E r \in SeqProcs, ok \in BOOLEAN : UploadDone(r, ok)
  \/ Tick

Spec == Init /\ [][Next]_vars

\* The upstream responses of the overlapping runs: a transport error, and
\* valid snapshots selecting A, B, A and B, or nothing.
OverlapResponses ==
  {[err |-> TRUE, status |-> 0, body |-> Garbage]}
    \cup [err : {FALSE}, status : {HTTP_OK},
          body : {JSONStringify([data |-> Arr(rows)]) :
                    rows \in {<<RowA1>>, <<RowB>>, <<RowB, RowA1>>, <<RowBond>>}}]

\* Invocations may overlap: the platform starts an invocation while
\* another is between two of its awaits.  The invocations are of the
\* handler of src/instrument-updates-generator.js; on OverlapResponses the
\* other handler takes the same steps.
NextOverlap ==
  \/ \E r \in Procs : Start(r, "async")
  \/ \E r \in Procs, resp \in OverlapResponses : FetchDone(r, resp)
  \/ \E r \in Procs, ok \in BOOLEAN : HeadDone(r, ok)
  \/ \E r \in Procs, ok \in BOOLEAN : InitPutDone(r, ok)
  \/ \E r \in Procs, ok \in BOOLEAN :
       /\ pc[r] = "read"
       /\ \E d \in (IF ok THEN SaveDiffs(selected[r], store[1])
                          ELSE {[removed |-> <<>>, added |-> <<>>]}) :
            \E st \in (IF ok THEN Stamps(Len(d.removed) + Len(d.added), clock)
                             ELSE {<<>>}) :
              ReadDone(r, ok, d, st)
  \/ \E r \in Procs, ok \in BOOLEAN : SavePutDone(r, ok)
  \/ \E r \in Procs, ok \in BOOLEAN : RenderDone(r, ok)
  \/ \E r \in Procs, ok \in BOOLEAN : UploadDone(r, ok)
  \/ Tick

SpecOverlap == Init /\ [][NextOverlap]_vars


\* ------------------------------------------------------------- vocabulary
Parsed(s) == JSONParse(s[1])
Log(s) == IF s = <<>> THEN <<>> ELSE Parsed(s).updates
Instruments(s) == IF s = <<>> THEN <<>> ELSE Parsed(s).instruments

Range(s) == {s[i] : i \in DOMAIN s}
BagOf(s) == [x \in Range(s) |-> Cardinality({i \in DOMAIN s : s[i] = x})]
IsinSet(s) == {s[i].isinCode.v : i \in DOMAIN s}
IsPrefix(a, b) == Len(a) <= Len(b) /\ SubSeq(b, 1, Len(a)) = a

Ascending(s) ==
  \A i \in DOMAIN s : \A j \in DOMAIN s :
    i < j => ~StrLess(s[j].isinCode.v, s[i].isinCode.v)
StrictlyAscending(s) ==
  \A i \in DOMAIN s : \A j \in DOMAIN s :
    i < j => StrLess(s[i].isinCode.v, s[j].isinCode.v)

\* The run has passed the reconciliation step's putObject call.
Reconciled(r) == path[r] = "reconcile" /\ putBody[r] # <<>>
\* The records the run's reconciliation step appended to the log it read.
Appended(r) ==
  SubSeq(Log(putBody[r]), Len(Log(dataFileBody[r])) + 1, Len(Log(putBody[r])))
OfType(records, type) == {records[i] : i \in {j \in DOMAIN records : records[j].type = type}}
RecordIsins(records) == {x.instrument.isinCode.v : x \in records}

Succeeded(r) == pc[r] = "done"
Committed(r) == wrote[r] > 0

\* ------------------------------------------------------------------ claims

\* C1: idempotence.  When the persisted state was produced by a successful
\* run with selected rows N and the next run, selecting the same rows N,
\* writes the persisted state, what it writes equals what was there: no
\* update record is appended and the instruments are unchanged.
C1_Idempotent ==
  \A r \in Procs :
    (Committed(r) /\ startProducer[r] = <<selected[r]>>) => store = startStore[r]

C1_Witness ==
  \E r \in Procs :
    /\ Succeeded(r) /\ Committed(r)
    /\ startProducer[r] = <<selected[r]>>
    /\ Len(selected[r]) = MaxRows
    /\ diff[r] = <<[removed |-> <<>>, added |-> <<>>]>>

\* C2: diff completeness, as claimed.  The ISINs of the removed records a
\* reconciliation appends are those of the prior snapshot only, the ISINs
\* of the added records those of the new selected set only, and no record
\* is appended for an ISIN in both.
C2_DiffComplete ==
  \A r \in Procs :
    Reconciled(r) =>
      LET P == IsinSet(Instruments(dataFileBody[r]))
          N == IsinSet(CreateAll(selected[r]))
      IN /\ RecordIsins(OfType(Appended(r), "removed")) = P \ N
         /\ RecordIsins(OfType(Appended(r), "added")) = N \ P
         /\ RecordIsins(Range(Appended(r))) \cap (P \cap N) = {}

\* C3: sort invariant, as claimed.  After a successful run the persisted
\* instruments are strictly ascending by isinCode.
C3_StrictlyAscending ==
  \A r \in Procs : Succeeded(r) => StrictlyAscending(Instruments(store))

\* C4: append-only log.  The persisted log a run found when it started is a
\* prefix of the persisted log at every later moment of the run, whether the
\* run succeeds or fails.
C4_AppendOnly ==
  \A r \in Procs : IsPrefix(Log(startStore[r]), Log(store))

C4_Witness ==
  \E r \in Procs :
    /\ Committed(r)
    /\ Log(startStore[r]) # <<>>
    /\ Len(Log(store)) > Len(Log(startStore[r]))

\* C5: after a successful run the persisted instruments are exactly the
\* records derived from the rows selected in that run, in ascending order
\* of isinCode.
C5_SnapshotReplaced ==
  \A r \in Procs :
    Succeeded(r) =>
      /\ BagOf(Instruments(store)) = BagOf(CreateAll(selected[r]))
      /\ Ascending(Instruments(store))

C5_Witness ==
  \E r \in Procs :
    /\ Succeeded(r)
    /\ path[r] = "reconcile"
    /\ Instruments(startStore[r]) # <<>>
    /\ selected[r] # <<>>
    /\ Range(Instruments(startStore[r])) \cap Range(Instruments(store)) = {}

\* C6, as claimed: the list the reconciliation step returns holds the
\* records appended in this run only.
C6_ReturnsOnlyNew ==
  \A r \in Procs :
    (Reconciled(r) /\ Committed(r) /\ Log(dataFileBody[r]) # <<>>) =>
      /\ Range(instrumentUpdates[r]) \cap Range(Log(dataFileBody[r])) = {}
      /\ Len(instrumentUpdates[r]) = Len(diff[r][1].removed) + Len(diff[r][1].added)

\* C6, amended: the list the reconciliation step returns is the whole
\* persisted log, the prior records and the records appended in this run;
\* its length is the prior log's length plus the number of removed plus
\* added instruments of this run.
C6_ReturnsFullLog ==
  \A r \in Procs :
    (Reconciled(r) /\ Committed(r)) =>
      /\ BagOf(instrumentUpdates[r]) = BagOf(Log(dataFileBody[r]) \o Appended(r))
      /\ Len(instrumentUpdates[r]) =
           Len(Log(dataFileBody[r])) + Len(diff[r][1].removed) + Len(diff[r][1].added)

C6_Witness ==
  \E r \in Procs :
    /\ Reconciled(r) /\ Committed(r)
    /\ Log(dataFileBody[r]) # <<>>
    /\ diff[r][1].removed # <<>>
    /\ diff[r][1].added # <<>>

\* C7: bootstrap.  A run that found no persisted state computes no diff and
\* hands the empty list on for presentation; what it writes has the selected
\* set in ascending order of isinCode as instruments and an empty log.
C7_Bootstrap ==
  \A r \in Procs :
    path[r] = "bootstrap" =>
      /\ startStore[r] = <<>>
      /\ dataFileBody[r] = <<>>
      /\ diff[r] = <<>>
      /\ instrumentUpdates[r] = <<>>
      /\ Committed(r) =>
           /\ Log(store) = <<>>
           /\ BagOf(Instruments(store)) = BagOf(CreateAll(selected[r]))
           /\ Ascending(Instruments(store))

C7_Witness ==
  \E r \in Procs :
    /\ path[r] = "bootstrap"
    /\ Succeeded(r)
    /\ IsinSet(Instruments(store)) = {IsinA, IsinB}
    /\ selected[r][1].v[4].v = IsinB

\* C8: a snapshot that fails validation ends the run in error before any
\* write.  The invalid snapshots are those of the spec: data missing, not a
\* list or empty, a row that is not a list or has fewer than 5 or more than
\* 7 fields, a field violating its constraint.
BadRows == {RowShort, RowBond8, RowBadIsin, RowBadTicker, RowNotList}
BadSnapshot(resp) ==
  /\ ~resp.err
  /\ resp.status = 200
  /\ resp.body.t = "json"
  /\ LET data == resp.body.v[1].data IN
       \/ data.t # "array"
       \/ data.v = <<>>
       \/ \E i \in DOMAIN data.v : data.v[i] \in BadRows

C8_ValidationAborts ==
  \A r \in Procs :
    (response[r] # <<>> /\ BadSnapshot(response[r][1])) =>
      /\ pc[r] = "error"
      /\ wrote[r] = 0
      /\ wroteHtml[r] = 0
      /\ store = startStore[r]

C8_Witness ==
  \E r \in Procs :
    /\ pc[r] = "error"
    /\ response[r] # <<>>
    /\ response[r][1].body = JSONStringify([data |-> Arr(<<RowA1, RowBadIsin>>)])
    /\ store # <<>>
    /\ Log(store) # <<>>

\* C9: commit before presentation.  On the reconciliation path, once
\* rendering is attempted the reconciled state has been written; a run that
\* fails in rendering or in the upload of the page ends in error with the
\* persisted state holding this run's result.
C9_CommitBeforeRender ==
  \A r \in Procs :
    (/\ path[r] = "reconcile"
     /\ \/ pc[r] \in {"render", "upload"}
        \/ pc[r] = "error" /\ errAt[r] \in {"render", "upload"}) =>
      /\ wrote[r] = 1
      /\ store = putBody[r]
      /\ BagOf(Instruments(store)) = BagOf(CreateAll(selected[r]))
      /\ IsPrefix(Log(startStore[r]), Log(store))

C9_Witness ==
  \E r \in Procs :
    /\ path[r] = "reconcile"
    /\ pc[r] = "error"
    /\ errAt[r] = "render"
    /\ Len(Log(store)) > Len(Log(startStore[r]))
    /\ Instruments(store) # Instruments(startStore[r])

\* C10: identifier-only diff, as claimed.  For an ISIN of both the prior
\* snapshot and the new selected set whose other fields differ, the run
\* appends no update record, and the instruments it persists hold the new
\* field values.
C10_IdentifierOnly ==
  \A r \in Procs :
    Reconciled(r) =>
      \A old \in Range(Instruments(dataFileBody[r])) :
        \A new \in Range(CreateAll(selected[r])) :
          (old.isinCode = new.isinCode /\ old # new) =>
            /\ old.isinCode.v \notin RecordIsins(Range(Appended(r)))
            /\ new \in Range(Instruments(putBody[r]))

\* The instruments of the records, in the records' order.
InstrumentsOf(records) == [i \in DOMAIN records |-> records[i].instrument]
\* The records of one type, in the records' order.
RECURSIVE SelectType(_, _)
SelectType(records, type) ==
  IF records = <<>> THEN <<>>
  ELSE LET rest == SelectType(SubSeq(records, 1, Len(records) - 1), type)
           last == records[Len(records)]
       IN IF last.type = type THEN Append(rest, last) ELSE rest

\* C11 (empty selected set).  A reconciliation run whose selected set is
\* empty appends exactly one 'removed' record for every instrument of the
\* prior state, in the prior state's order, and no 'added' record; the
\* document it puts holds no instruments, and so does the store once the
\* put has succeeded.
C11_EmptySelectedSet ==
  \A r \in Procs :
    (Reconciled(r) /\ selected[r] = <<>>) =>
      /\ \A i \in DOMAIN Appended(r) : Appended(r)[i].type = "removed"
      /\ InstrumentsOf(Appended(r))
           = SortInstruments(Instruments(dataFileBody[r]))
      /\ Instruments(putBody[r]) = <<>>
      /\ (wrote[r] > 0 /\ store = putBody[r]) => Instruments(store) = <<>>

\* A run found two instruments stored, selected none, and has written.
C11_Witness ==
  \E r \in Procs :
    /\ Reconciled(r) /\ selected[r] = <<>> /\ Committed(r)
    /\ Len(Instruments(dataFileBody[r])) = 2
    /\ Len(Appended(r)) = 2
    /\ Instruments(store) = <<>>

\* C13 (order of the records of one run).  The records a reconciliation
\* run appends come after every record of the log it read; every 'removed'
\* record precedes every 'added' record; the 'removed' records follow the
\* ascending ISIN order of the sorted prior instruments and the 'added'
\* records the ascending ISIN order of the sorted new instruments.
C13_AppendOrder ==
  \A r \in Procs :
    Reconciled(r) =>
      LET removed == SelectType(Appended(r), "removed")
          added == SelectType(Appended(r), "added")
      IN /\ IsPrefix(Log(dataFileBody[r]), Log(putBody[r]))
         /\ Appended(r) = removed \o added
         /\ InstrumentsOf(removed) = diff[r][1].removed
         /\ InstrumentsOf(added) = diff[r][1].added
         /\ Ascending(InstrumentsOf(removed))
         /\ Ascending(InstrumentsOf(added))

\* A run was handed B before A, read a log that already held records, and
\* appended 'added' records for A and then B.
C13_Witness ==
  \E r \in Procs :
    /\ Reconciled(r) /\ Committed(r)
    /\ Log(dataFileBody[r]) # <<>>
    /\ Len(selected[r]) = 2
    /\ createInstrument(selected[r][1]).isinCode.v = IsinB
    /\ createInstrument(selected[r][2]).isinCode.v = IsinA
    /\ Len(Appended(r)) >= 2
    /\ Appended(r)[Len(Appended(r)) - 1].type = "added"
    /\ Appended(r)[Len(Appended(r)) - 1].instrument.isinCode.v = IsinA
    /\ Appended(r)[Len(Appended(r))].instrument.isinCode.v = IsinB

\* The rows of a 200 response whose body parses to a non-empty list of rows.
SnapshotRows(resp) ==
  IF /\ ~resp.err
     /\ resp.status = 200
     /\ resp.body.t = "json"
     /\ resp.body.v[1].data.t = "array"
     /\ resp.body.v[1].data.v # <<>>
  THEN resp.body.v[1].data.v
  ELSE <<>>

\* Five-field rows that satisfy every field constraint.
ValidFive == {RowA1.v, RowA2.v, RowB.v, RowBond.v}
\* A list-shaped row whose first five fields satisfy the field constraints.
FirstFiveValid(row) ==
  /\ row.t = "array"
  /\ Len(row.v) >= 5 => SubSeq(row.v, 1, 5) \in ValidFive
  /\ Len(row.v) < 5 => \E five \in ValidFive : IsPrefix(row.v, five)

\* C12 (row-length rule).  In either variant, a snapshot all of whose rows
\* are lists with valid first five fields is accepted exactly when every
\* row has 5, 6 or 7 fields.
C12_RowLengthRule ==
  \A r \in Procs :
    LET rows == IF response[r] = <<>> THEN <<>> ELSE SnapshotRows(response[r][1])
    IN (rows # <<>> /\ \A i \in DOMAIN rows : FirstFiveValid(rows[i])) =>
         (pc[r] # "error" <=> \A i \in DOMAIN rows : Len(rows[i].v) \in 5..7)

\* The validator of src/instrument-updates-generator.js alone obeys the rule.
C12_AsyncRowLengthRule ==
  \A r \in Procs :
    LET rows == IF response[r] = <<>> THEN <<>> ELSE SnapshotRows(response[r][1])
    IN (variant[r] = "async" /\ rows # <<>>
          /\ \A i \in DOMAIN rows : FirstFiveValid(rows[i])) =>
         (pc[r] # "error" <=> \A i \in DOMAIN rows : Len(rows[i].v) \in 5..7)

\* The handler of the other source file.
OtherVariant(v) == IF v = "async" THEN "promise" ELSE "async"

\* C19 (variant equivalence).  A run's fetch-and-validate step fails
\* exactly when the other variant's step fails on the same response.
C19_SameOutcome ==
  \A r \in Procs :
    response[r] # <<>> =>
      LET resp == response[r][1]
          other == OtherVariant(variant[r])
      IN (pc[r] = "error") <=>
           \/ getInstrumentsDataRejects(other, resp)
           \/ (~resp.err /\ doParseAndValidationThrows(other, resp.body))

\* Both handlers treat alike every response with status 200 whose rows all
\* have five fields.
C19_SameOutcomeOnFiveFieldRows ==
  \A r \in Procs :
    (/\ response[r] # <<>>
     /\ response[r][1].status \in {0, 200, 500}
     /\ \A i \in DOMAIN SnapshotRows(response[r][1]) :
          SnapshotRows(response[r][1])[i].t = "array"
            => Len(SnapshotRows(response[r][1])[i].v) \notin {6, 7}) =>
      LET resp == response[r][1]
          other == OtherVariant(variant[r])
      IN (pc[r] = "error") <=>
           \/ getInstrumentsDataRejects(other, resp)
           \/ (~resp.err /\ doParseAndValidationThrows(other, resp.body))

\* The dateTime values of the records, as instants.
Instants(records) == [i \in DOMAIN records |-> DateParse(records[i].dateTime)]
NonIncreasing(t) == \A i \in DOMAIN t : \A j \in DOMAIN t : i < j => t[i] >= t[j]
NonDecreasing(t) == \A i \in DOMAIN t : \A j \in DOMAIN t : i < j => t[i] <= t[j]

\* C15 (existence-check outcomes).  A run whose existence check or read
\* failed is in error, has written neither artifact and has left the store
\* as it found it.  The bootstrap path is taken only when the store was
\* absent and the existence check did not fail; the reconciliation path
\* only when it was present.
C15_ExistenceCheck ==
  \A r \in Procs :
    /\ errAt[r] \in {"head", "read"} =>
         /\ pc[r] = "error"
         /\ wrote[r] = 0 /\ wroteHtml[r] = 0
         /\ putBody[r] = <<>>
         /\ store = startStore[r]
    /\ path[r] = "bootstrap" => (startStore[r] = <<>> /\ errAt[r] # "head")
    /\ path[r] = "reconcile" => startStore[r] # <<>>
    /\ pc[r] = "initput" => (path[r] = "bootstrap" /\ errAt[r] = "none")

\* The read of a store whose log is not empty failed.
C15_Witness ==
  \E r \in Procs :
    /\ pc[r] = "error" /\ errAt[r] = "read"
    /\ path[r] = "reconcile"
    /\ Log(store) # <<>>

\* C16 (single commit per run).  A run writes the store at most once; a
\* run that succeeded wrote exactly once; a run in error either wrote
\* nothing, the store being as the run found it, or failed in rendering or
\* upload after its one write.
C16_SingleCommit ==
  \A r \in Procs :
    /\ wrote[r] <= 1
    /\ Succeeded(r) => (wrote[r] = 1 /\ store = putBody[r])
    /\ pc[r] = "error" =>
         \/ /\ wrote[r] = 0
            /\ store = startStore[r]
            /\ errAt[r] \in {"fetch", "validate", "head", "read", "initput", "saveput"}
         \/ /\ wrote[r] = 1
            /\ store = putBody[r]
            /\ errAt[r] \in {"render", "upload"}

\* The put of a document that differs from the stored one failed.
C16_Witness ==
  \E r \in Procs :
    /\ pc[r] = "error" /\ errAt[r] = "saveput"
    /\ wrote[r] = 0
    /\ Appended(r) # <<>>
    /\ store = startStore[r] /\ store # putBody[r]

\* C17 (presentation ordering).  After the put of a reconciliation run the
\* list held for the renderer has exactly the records of the log the run
\* wrote, the carried ones and the appended ones, newest first.
C17_PresentationOrder ==
  \A r \in Procs :
    (path[r] = "reconcile" /\ wrote[r] = 1) =>
      /\ BagOf(instrumentUpdates[r])
           = BagOf(Log(dataFileBody[r]) \o Appended(r))
      /\ NonIncreasing(Instants(instrumentUpdates[r]))

\* The page of a run was uploaded with a carried record of instant 0 listed
\* after an appended record of a later instant.
C17_Witness ==
  \E r \in Procs :
    /\ Succeeded(r) /\ path[r] = "reconcile"
    /\ Log(dataFileBody[r]) # <<>> /\ Appended(r) # <<>>
    /\ instrumentUpdates[r][1] = Appended(r)[Len(Appended(r))]
    /\ instrumentUpdates[r][Len(instrumentUpdates[r])] = Log(dataFileBody[r])[1]
    /\ DateParse(instrumentUpdates[r][1].dateTime)
         > DateParse(instrumentUpdates[r][Len(instrumentUpdates[r])].dateTime)
    /\ htmlStore = <<renderHtml(instrumentUpdates[r])>>

\* C18 (persisted log order).  The stored log is oldest-first, and the
\* list sorted for the renderer leaves it so: the store holds the log the
\* run put, the log it read followed by the records it appended.
C18_StoredLogOrder ==
  /\ NonDecreasing(Instants(Log(store)))
  /\ \A r \in Procs :
       (path[r] = "reconcile" /\ wrote[r] = 1) =>
         /\ Log(store) = Log(dataFileBody[r]) \o Appended(r)
         /\ dataFileBody[r] = startStore[r]

\* The list of a run was sorted into another order than the stored log's,
\* the page was uploaded, and the stored log runs from instant 0 to a later one.
C18_Witness ==
  \E r \in Procs :
    /\ Succeeded(r) /\ path[r] = "reconcile"
    /\ instrumentUpdates[r] # Log(store)
    /\ Len(Log(store)) >= 2
    /\ DateParse(Log(store)[1].dateTime) < DateParse(Log(store)[Len(Log(store))].dateTime)

\* The ISIN set obtained from isins by applying the records in order:
\* insert on 'added', delete on 'removed'.
RECURSIVE Replay(_, _)
Replay(records, isins) ==
  IF records = <<>> THEN isins
  ELSE LET before == Replay(SubSeq(records, 1, Len(records) - 1), isins)
           last == records[Len(records)]
       IN IF last.type = "added"
          THEN before \cup {last.instrument.isinCode.v}
          ELSE before \ {last.instrument.isinCode.v}

\* Successive records of one ISIN differ in type.
Alternates(records) ==
  \A i \in DOMAIN records : \A j \in DOMAIN records :
    (/\ i < j
     /\ records[i].instrument.isinCode = records[j].instrument.isinCode
     /\ \A k \in (i + 1)..(j - 1) :
          records[k].instrument.isinCode # records[i].instrument.isinCode)
      => records[i].type # records[j].type

\* C20 (log/snapshot consistency).  While every document written came from
\* a selected set without a repeated ISIN, replaying the stored log over
\* the ISIN set of the bootstrap document gives the ISIN set of the stored
\* instruments, and the records of each ISIN alternate between the types,
\* beginning with 'removed' exactly for the ISINs of the bootstrap document.
C20_LogReplaysToSnapshot ==
  (store # <<>> /\ lineage.boot # <<>> /\ lineage.dupFree) =>
    /\ Replay(Log(store), IsinSet(lineage.boot[1])) = IsinSet(Instruments(store))
    /\ Alternates(Log(store))
    /\ \A i \in DOMAIN Log(store) :
         (\A k \in 1..(i - 1) :
            Log(store)[k].instrument.isinCode # Log(store)[i].instrument.isinCode)
           => (Log(store)[i].type = "removed"
                 <=> Log(store)[i].instrument.isinCode.v \in IsinSet(lineage.boot[1]))

\* After three runs without a repeated ISIN the log holds a 'removed' and a
\* later 'added' record of one ISIN and a record of another ISIN, and the
\* stored instruments differ from the bootstrap document's.
C20_Witness ==
  /\ store # <<>> /\ lineage.boot # <<>> /\ lineage.dupFree
  /\ \A r \in SeqProcs : Succeeded(r)
  /\ Len(Log(store)) >= 3
  /\ \E i \in DOMAIN Log(store) : \E j \in DOMAIN Log(store) :
       /\ i < j
       /\ Log(store)[i].instrument.isinCode = Log(store)[j].instrument.isinCode
       /\ Log(store)[i].type = "removed" /\ Log(store)[j].type = "added"
  /\ IsinSet(Instruments(store)) # IsinSet(lineage.boot[1])

\* The store lacks a record the run appended and wrote.
LostUpdate(r) ==
  /\ path[r] = "reconcile" /\ wrote[r] = 1
  /\ \E i \in DOMAIN Appended(r) : Appended(r)[i] \notin Range(Log(store))

\* C14 (lost update under overlap).  The store lacks records a run appended
\* and wrote only if another run was in progress during that run.
C14_LostUpdateOnlyUnderOverlap ==
  \A r \in Procs : LostUpdate(r) => overlapped[r]

\* Two runs read the same prior document, both wrote, and the store holds
\* the document of the second writer, without the first writer's records.
C14_Witness ==
  \E r \in Procs : \E o \in Procs \ {r} :
    /\ path[r] = "reconcile" /\ path[o] = "reconcile"
    /\ wrote[r] = 1 /\ wrote[o] = 1
    /\ dataFileBody[r] = dataFileBody[o]
    /\ store = putBody[o]
    /\ LostUpdate(r)
    /\ overlapped[r] /\ overlapped[o]

====
